---- MODULE Spec2Model ----
(***************************************************************************)
(* A model of CommandLineInterpreter (cli.js, version 1.0.2): the shell    *)
(* key handler, the history with its cursor and limit, the evaluator       *)
(* (eval / __loop / __eval), the built-in commands and localStorage.       *)
(*                                                                         *)
(* A JavaScript string is a sequence of one-character strings, so that the *)
(* regular expressions of the source are computed character by character. *)
(***************************************************************************)
EXTENDS Integers, Sequences, FiniteSets, TLC

(***************************************************************************)
(* Bounds of the model.                                                    *)
(***************************************************************************)
\* Enter is not pressed any more once the history holds this many entries.
MaxHist == 3

\* The most characters a secret is given.
MaxSecret == 2

\* The longest line of separators, blanks and question marks that is typed.
MaxExpr == 3

(***************************************************************************)
(* Characters and strings.                                                 *)
(***************************************************************************)
\* \s of a JavaScript regular expression, within the alphabet of the model.
IsSpace(c) == c \in {" ", "\n", "\t"}

\* \w of a JavaScript regular expression.
IsWord(c) ==
  c \in {"a","b","c","d","e","f","g","h","i","j","k","l","m","n","o","p","q",
         "r","s","t","u","v","w","x","y","z","0","1","2","3","4","5","6","7",
         "8","9","_"}

\* [0-9]
IsDigit(c) == c \in {"0","1","2","3","4","5","6","7","8","9"}

\* [;\n], the characters that separate statements.
IsSep(c) == c \in {";", "\n"}

\* s.substring(i - 1, j): the characters i..j of s, empty when i > j.
Sub(s, i, j) == IF i > j THEN << >> ELSE SubSeq(s, i, j)

\* The first index >= i of s whose character is not white space (Len(s)+1 if none).
RECURSIVE SkipSpace(_, _)
SkipSpace(s, i) ==
  IF i <= Len(s) /\ IsSpace(s[i]) THEN SkipSpace(s, i + 1) ELSE i

\* The first index >= i of s whose character is white space (Len(s)+1 if none).
RECURSIVE SkipNonSpace(_, _)
SkipNonSpace(s, i) ==
  IF i <= Len(s) /\ ~IsSpace(s[i]) THEN SkipNonSpace(s, i + 1) ELSE i

\* The first index >= i of s whose character is not a word character.
RECURSIVE SkipWord(_, _)
SkipWord(s, i) ==
  IF i <= Len(s) /\ IsWord(s[i]) THEN SkipWord(s, i + 1) ELSE i

\* The first index >= i of s whose character is not one of ; and \n.
RECURSIVE SkipSep(_, _)
SkipSep(s, i) ==
  IF i <= Len(s) /\ IsSep(s[i]) THEN SkipSep(s, i + 1) ELSE i

\* The last index j of s with no white space in s[j+1..Len(s)].
RECURSIVE LastNonSpace(_, _)
LastNonSpace(s, j) ==
  IF j >= 1 /\ IsSpace(s[j]) THEN LastNonSpace(s, j - 1) ELSE j

\* String.prototype.trim
Trim(s) == Sub(s, SkipSpace(s, 1), LastNonSpace(s, Len(s)))

\* /\w/.test(s)
HasWordChar(s) == \E i \in 1..Len(s) : IsWord(s[i])

\* /[0-9]+/.test(s): the expression is not anchored.
HasDigit(s) == \E i \in 1..Len(s) : IsDigit(s[i])

\* /^--?/.test(s)
StartsWithDash(s) == Len(s) >= 1 /\ s[1] = "-"

(***************************************************************************)
(* The regular expressions of eval and of the history command.             *)
(***************************************************************************)
\* The largest k in q..w-1 with s[k] = "\n", or 0: where the greedy \s* of
\* /\s*[;\n]+\s*/ backs off to when no semicolon ends the white space.
RECURSIVE LastNewline(_, _, _)
LastNewline(s, q, k) ==
  IF k < q THEN 0 ELSE IF s[k] = "\n" THEN k ELSE LastNewline(s, q, k - 1)

\* Where [;\n]+ starts in the match of /\s*[;\n]+\s*/ at index q, or 0 when the
\* expression does not match at q.
SepStart(s, q) ==
  LET w == SkipSpace(s, q)
  IN  IF w <= Len(s) /\ s[w] = ";" THEN w ELSE LastNewline(s, q, w - 1)

\* expr.split(/\s*[;\n]+\s*/), scanning from q with the current piece starting
\* at p (the SplitMatcher loop of String.prototype.split).
RECURSIVE SplitFrom(_, _, _)
SplitFrom(s, p, q) ==
  IF q > Len(s) THEN << Sub(s, p, Len(s)) >>
  ELSE LET k == SepStart(s, q)
       IN  IF k = 0 THEN SplitFrom(s, p, q + 1)
           ELSE LET e == SkipSpace(s, SkipSep(s, k))
                IN  << Sub(s, p, q - 1) >> \o SplitFrom(s, e, e)

\* Mutant of FilterNonBlank: the pieces are not filtered.
KeepEvery(ps) == ps

\* .filter((s) => !!s.trim())
RECURSIVE FilterNonBlank(_)
FilterNonBlank(ps) ==
  IF ps = << >> THEN << >>
  ELSE IF Trim(Head(ps)) = << >> THEN FilterNonBlank(Tail(ps))
       ELSE << Head(ps) >> \o FilterNonBlank(Tail(ps))

\* let chunks = expr.split(/\s*[;\n]+\s*/).filter((s) => !!s.trim());
Chunks(expr) == FilterNonBlank(SplitFrom(expr, 1, 1))

\* The first index >= i of s holding a line break (Len(s)+1 if none): where the
\* (.*) of /(\S+)(.*)/ ends.
RECURSIVE SkipToNewline(_, _)
SkipToNewline(s, i) ==
  IF i <= Len(s) /\ s[i] # "\n" THEN SkipToNewline(s, i + 1) ELSE i

\* Mutant of ExecCommand: /(\w+)(.*)/, which takes the leading word characters
\* of the first token only.
ExecCommandWord(string) ==
  LET a == SkipSpace(string, 1)
      b == SkipWord(string, a)
  IN  IF a > Len(string) \/ a = b
      THEN [matched |-> FALSE, cmd |-> << >>, rest |-> << >>]
      ELSE [matched |-> TRUE, cmd |-> Sub(string, a, b - 1),
            rest |-> Sub(string, b, SkipToNewline(string, b) - 1)]

\* /(\S+)(.*)/.exec(string): matched is FALSE for null, cmd is group 1 and rest
\* is group 2.
ExecCommand(string) ==
  LET a == SkipSpace(string, 1)
      b == SkipNonSpace(string, a)
  IN  IF a > Len(string)
      THEN [matched |-> FALSE, cmd |-> << >>, rest |-> << >>]
      ELSE [matched |-> TRUE, cmd |-> Sub(string, a, b - 1),
            rest |-> Sub(string, b, SkipToNewline(string, b) - 1)]

\* Mutant of NextQuote: /"([^"]*)("|$)/, where the end of the text closes a
\* quote.
RECURSIVE NextQuoteOrEnd(_, _)
NextQuoteOrEnd(r, i) ==
  IF i > Len(r) THEN Len(r) + 1
  ELSE IF r[i] = "\"" THEN i ELSE NextQuoteOrEnd(r, i + 1)

\* The first index >= i of r holding a double quote, or 0.
RECURSIVE NextQuote(_, _)
NextQuote(r, i) ==
  IF i > Len(r) THEN 0 ELSE IF r[i] = "\"" THEN i ELSE NextQuote(r, i + 1)

\* args.push(argMatch[1] || argMatch[0]) for the match "..." spanning i..j: an
\* empty group 1 is falsy, so the whole match (the two quotes) is pushed.
QuotedArg(r, i, j) == IF j = i + 1 THEN Sub(r, i, j) ELSE Sub(r, i + 1, j - 1)

\* Mutant of MatchArgs: /"([^"]*)"|\w+/g, which matches word characters only.
RECURSIVE MatchArgsWord(_, _)
MatchArgsWord(r, i) ==
  IF i > Len(r) THEN << >>
  ELSE LET j == IF r[i] = "\"" THEN NextQuote(r, i + 1) ELSE 0
           e == SkipWord(r, i)
       IN  IF j # 0 THEN << QuotedArg(r, i, j) >> \o MatchArgsWord(r, j + 1)
           ELSE IF IsWord(r[i]) THEN << Sub(r, i, e - 1) >> \o MatchArgsWord(r, e)
           ELSE MatchArgsWord(r, i + 1)

\* for (let argMatch of rest.matchAll(/"([^"]*)"|\S+/g)) args.push(...), from
\* index i of r.
RECURSIVE MatchArgs(_, _)
MatchArgs(r, i) ==
  IF i > Len(r) THEN << >>
  ELSE LET j == IF r[i] = "\"" THEN NextQuote(r, i + 1) ELSE 0
           e == SkipNonSpace(r, i)
       IN  IF j # 0 THEN << QuotedArg(r, i, j) >> \o MatchArgs(r, j + 1)
           ELSE IF ~IsSpace(r[i]) THEN << Sub(r, i, e - 1) >> \o MatchArgs(r, e)
           ELSE MatchArgs(r, i + 1)

\* The arguments handed to the command function.
Arguments(rest) == MatchArgs(rest, 1)

\* /^\S+/.exec(s)?.[0] ?? ""
LeadingToken(s) ==
  IF s # << >> /\ ~IsSpace(s[1]) THEN Sub(s, 1, SkipNonSpace(s, 1) - 1) ELSE << >>

(***************************************************************************)
(* Numbers: history.limit is a number, NaN or undefined.                   *)
(***************************************************************************)
Num(n) == [tag |-> "number", val |-> n]
NaN == [tag |-> "NaN", val |-> 0]
Undefined == [tag |-> "undefined", val |-> 0]

DigitValue(c) ==
  CASE c = "0" -> 0 [] c = "1" -> 1 [] c = "2" -> 2 [] c = "3" -> 3 [] c = "4" -> 4
    [] c = "5" -> 5 [] c = "6" -> 6 [] c = "7" -> 7 [] c = "8" -> 8 [] OTHER -> 9

RECURSIVE Decimal(_, _)
Decimal(s, acc) ==
  IF s = << >> THEN acc ELSE Decimal(Tail(s), 10 * acc + DigitValue(Head(s)))

\* Number(string) for the strings of the model, which hold no sign, point,
\* exponent or radix prefix: the trimmed string is decimal digits, or it is NaN.
StringToNumber(s) ==
  LET t == Trim(s)
  IN  IF t = << >> THEN Num(0)
      ELSE IF \A i \in 1..Len(t) : IsDigit(t[i]) THEN Num(Decimal(t, 0))
      ELSE NaN

DigitChar(d) ==
  CASE d = 0 -> "0" [] d = 1 -> "1" [] d = 2 -> "2" [] d = 3 -> "3" [] d = 4 -> "4"
    [] d = 5 -> "5" [] d = 6 -> "6" [] d = 7 -> "7" [] d = 8 -> "8" [] OTHER -> "9"

RECURSIVE NatToString(_)
NatToString(n) ==
  IF n < 10 THEN << DigitChar(n) >> ELSE NatToString(n \div 10) \o << DigitChar(n % 10) >>

\* `${value}` of a number, NaN or undefined.
NumberToString(v) ==
  CASE v.tag = "number" -> NatToString(v.val)
    [] v.tag = "NaN" -> << "N", "a", "N" >>
    [] OTHER -> << "u", "n", "d", "e", "f", "i", "n", "e", "d" >>

\* history.splice(0, history.length - limit): the delete count is
\* ToIntegerOrInfinity(length - limit) clamped to 0..length, and 0 for NaN.
SpliceToLimit(h, limit) ==
  IF limit.tag = "number" /\ Len(h) > limit.val
  THEN Sub(h, Len(h) - limit.val + 1, Len(h))
  ELSE h

(***************************************************************************)
(* localStorage: the blob stored under the id, as JSON holds it.           *)
(***************************************************************************)
\* JSON.parse(JSON.stringify(limit)): NaN is stored as null.
JsonOfNumber(v) ==
  IF v.tag = "number" THEN v
  ELSE IF v.tag = "NaN" THEN [tag |-> "null", val |-> 0]
  ELSE [tag |-> "absent", val |-> 0]

\* memorize(key, data): storedData[key] = data, every other key kept.
Memorize(storage, key, data) == [storage EXCEPT ![key] = data]

\* A stored array of strings.
JsonOfHistory(h) == [present |-> TRUE, value |-> h]

\* Number(storedData?.history_limit) || 50
DefaultLimit == 50
LoadLimit(stored) ==
  IF stored.tag = "number" /\ stored.val # 0 THEN Num(stored.val) ELSE Num(DefaultLimit)

\* storedData?.history ?? []
LoadHistory(stored) == IF stored.present THEN stored.value ELSE << >>

(***************************************************************************)
(* Strings of the source and of the inputs.                                *)
(***************************************************************************)
SP == << " " >>
CLEAR == << "c", "l", "e", "a", "r" >>
HELP == << "h", "e", "l", "p" >>
HISTORY == << "h", "i", "s", "t", "o", "r", "y" >>
OPT_USAGE == << "-", "-", "?" >>
OPT_CLEAR == << "-", "-", "c", "l", "e", "a", "r" >>
OPT_CLEAN == << "-", "-", "c", "l", "e", "a", "n" >>
OPT_LIMIT == << "-", "-", "l", "i", "m", "i", "t" >>
\* Commands a page supplies, as demo.js and README.md do.
LS == << "l", "s" >>
PWD == << "p", "w", "d" >>
ECHO == << "e", "c", "h", "o" >>
BAD == << "b", "a", "d" >>
SLOW == << "s", "l", "o", "w" >>

(***************************************************************************)
(* The command registry.                                                   *)
(***************************************************************************)
\* static builtInCommands: each name with its function.
builtInCommands ==
  [n \in {CLEAR, HELP, HISTORY} |->
     CASE n = CLEAR -> "builtin clear"
       [] n = HELP -> "builtin help"
       [] OTHER -> "builtin history"]

\* The commands of the page: a function that returns, one that throws, one that
\* returns a Promise; a value that is no function is "not a function".
CustomCommands ==
  [n \in {LS, PWD, ECHO, BAD, SLOW} |->
     CASE n = BAD -> "throws"
       [] n = SLOW -> "promise"
       [] OTHER -> "returns"]

\* typeof func === "function"
IsFunction(func) == func # "not a function"

\* Mutant of Registry: a name that is set already is not set again.
RegistryFirstWins(builtIn, custom) ==
  LET names == {n \in DOMAIN builtIn : IsFunction(builtIn[n])}
                 \cup {n \in DOMAIN custom : IsFunction(custom[n])}
  IN  [n \in names |->
         IF n \in DOMAIN builtIn /\ IsFunction(builtIn[n]) THEN builtIn[n] ELSE custom[n]]

\* this.commands = new Map(); for each provider in [builtInCommands, commands],
\* for each entry with a function: this.commands.set(command, func).
Registry(builtIn, custom) ==
  LET names == {n \in DOMAIN builtIn : IsFunction(builtIn[n])}
                 \cup {n \in DOMAIN custom : IsFunction(custom[n])}
  IN  [n \in names |->
         IF n \in DOMAIN custom /\ IsFunction(custom[n]) THEN custom[n] ELSE builtIn[n]]

(***************************************************************************)
(* Writing to the body.                                                    *)
(***************************************************************************)
\* One child of the body: what kind of text was written, and the text put
\* into it.
Line(kind, text) == [kind |-> kind, text |-> text]

\* cli.writeLn(...): the line is appended to the body.
WriteLn(m, kind, text) == [m EXCEPT !.body = Append(@, Line(kind, text))]

\* this.writeLn(`\x1b[31m${error}`), the line __handleError writes.
ErrorLine(text) == Line("ESC[31m", text)

\* this.writeLn(`Unknown command: ${cmd}`)
UnknownLine(cmd) == Line("Unknown command: ", cmd)

\* array.join(sep)
RECURSIVE Join(_, _)
Join(ss, sep) ==
  IF ss = << >> THEN << >>
  ELSE IF Len(ss) = 1 THEN Head(ss)
  ELSE Head(ss) \o sep \o Join(Tail(ss), sep)

(***************************************************************************)
(* The named-argument helpers.                                             *)
(***************************************************************************)
\* args.indexOf(n), counted from 1, or 0.
RECURSIVE IndexFrom(_, _, _)
IndexFrom(args, n, i) ==
  IF i > Len(args) THEN 0 ELSE IF args[i] = n THEN i ELSE IndexFrom(args, n, i + 1)

\* getNamedArgumentValue(args, name): defined is FALSE for undefined.
getNamedArgumentValue(args, name) ==
  LET argIndex == IndexFrom(args, name, 1)
  IN  IF argIndex = 0 THEN [defined |-> FALSE, value |-> << >>]
      ELSE IF Len(args) > argIndex /\ ~StartsWithDash(args[argIndex + 1])
           THEN [defined |-> TRUE, value |-> args[argIndex + 1]]
           ELSE [defined |-> TRUE, value |-> << >>]

(***************************************************************************)
(* The state.                                                              *)
(***************************************************************************)
VARIABLES
  commands,   \* this.commands: command name -> function
  history,    \* this.history, the entries of the array
  position,   \* this.history.position
  limit,      \* this.history.limit: a number, NaN or undefined
  storage,    \* the blob localStorage holds under this.id
  body,       \* what was written to this.body since the last committed input
  input,      \* innerText of the editable input element of the shell prompt
  pc,         \* what the session waits for (see Phases)
  chunks,     \* the statements eval has not started yet
  pending,    \* the started statements whose Promise has not settled
  promise,    \* the state of the Promise the running eval returned
  stmts,      \* the statements the running eval was given (history variable)
  started,    \* the statements the running eval has started, in order
  outcomes,   \* how each started statement ended, or "promise" while pending
  calls,      \* the command functions the running eval has called: the index of
              \* the statement in started, the command name and the arguments
  reading,    \* the request of readKey, readLn or readSecret that is open
  answers     \* what the requests of the running eval resolved with, in order

vars == << commands, history, position, limit, storage, body, input, pc, chunks,
           pending, promise, stmts, started, outcomes, calls, reading, answers >>

\* No request of readKey, readLn or readSecret is open.
NoRead ==
  [kind |-> "none", phase |-> "none", keys |-> << >>, secret |-> << >>,
   key |-> << >>, stmt |-> 0]

\* "loop":  a statement has finished and the .finally(__loop) job is queued
\* "wait":  the Promise of the current statement is pending, nothing is queued
\* "done":  eval has resolved and the job that calls receiveInput is queued
\* "timer": receiveInput has written the prompt, its setTimeout has not fired
\* "input": the input element is in the body and receives the keys
Phases == {"loop", "wait", "done", "timer", "input"}

\* The part of the state the evaluator and the command functions work on.
This ==
  [commands |-> commands, history |-> history, position |-> position,
   limit |-> limit, storage |-> storage, body |-> body, pc |-> pc,
   chunks |-> chunks, pending |-> pending, promise |-> promise, stmts |-> stmts,
   started |-> started, outcomes |-> outcomes, calls |-> calls,
   reading |-> reading, answers |-> answers]

\* The next state holds the fields of m.
Becomes(m) ==
  /\ commands' = m.commands
  /\ history' = m.history
  /\ position' = m.position
  /\ limit' = m.limit
  /\ storage' = m.storage
  /\ body' = m.body
  /\ pc' = m.pc
  /\ chunks' = m.chunks
  /\ pending' = m.pending
  /\ promise' = m.promise
  /\ stmts' = m.stmts
  /\ started' = m.started
  /\ outcomes' = m.outcomes
  /\ calls' = m.calls
  /\ reading' = m.reading
  /\ answers' = m.answers

(***************************************************************************)
(* The built-in commands.                                                  *)
(***************************************************************************)
\* Mutant of ClearCommand: the body is emptied before the arguments are looked
\* at.
ClearCommandFirst(m, args) ==
  IF args = << >> THEN [m EXCEPT !.body = << >>]
  ELSE IF args[1] = OPT_USAGE
       THEN WriteLn(WriteLn([m EXCEPT !.body = << >>], "Usage: clear", << >>),
                    "Clear all output.", << >>)
       ELSE WriteLn(m, "clear: Invalid argument: ", args[1])

\* builtInCommands.clear
ClearCommand(m, args) ==
  IF args = << >> THEN [m EXCEPT !.body = << >>]
  ELSE IF args[1] = OPT_USAGE
       THEN WriteLn(WriteLn(m, "Usage: clear", << >>), "Clear all output.", << >>)
       ELSE WriteLn(m, "clear: Invalid argument: ", args[1])

\* builtInCommands.help; the list of names is written as one line whose text
\* is not modelled.
HelpCommand(m, args) ==
  IF args = << >>
  THEN WriteLn(WriteLn(WriteLn(m, "These are the available commands:", << >>),
                       "command names", << >>),
               "Try <command> --? for more information on a specific command.", << >>)
  ELSE IF args[1] = OPT_USAGE
       THEN WriteLn(WriteLn(m, "Usage: help", << >>),
                    "Display a list of all available commands.", << >>)
       ELSE WriteLn(m, "help: Invalid argument: ", args[1])

\* Array.from(new Set(h)): the distinct entries in the order of their first
\* occurrence.
RECURSIVE Distinct(_, _)
Distinct(h, seen) ==
  IF h = << >> THEN << >>
  ELSE IF Head(h) \in seen THEN Distinct(Tail(h), seen)
       ELSE << Head(h) >> \o Distinct(Tail(h), seen \cup {Head(h)})

\* Mutant of FilterValid: every entry passes the filter.
KeepAll(h, validCommands) == h

\* h.filter((s) => validCommands.includes(/^\S+/.exec(s)?.[0] ?? ""))
RECURSIVE FilterValid(_, _)
FilterValid(h, validCommands) ==
  IF h = << >> THEN << >>
  ELSE IF LeadingToken(Head(h)) \in validCommands
       THEN << Head(h) >> \o FilterValid(Tail(h), validCommands)
       ELSE FilterValid(Tail(h), validCommands)

\* Mutant of HistoryClear: the empty history is stored and the cursor is set,
\* but the array keeps its entries.
HistoryClearStoredOnly(m) ==
  [m EXCEPT !.position = -1,
            !.storage = Memorize(@, "history", JsonOfHistory(<< >>))]

\* Mutant of HistoryClear: cli.memorize("history", cli.history) is left out.
HistoryClearNotStored(m) ==
  [m EXCEPT !.history = << >>, !.limit = Undefined, !.position = -1]

\* case "--clear": a new array, which has no limit property.
HistoryClear(m) ==
  LET m1 == [m EXCEPT !.history = << >>, !.limit = Undefined, !.position = -1]
  IN  [m1 EXCEPT !.storage = Memorize(@, "history", JsonOfHistory(m1.history))]

\* array.reverse()
RECURSIVE Reverse(_)
Reverse(q) == IF q = << >> THEN << >> ELSE Append(Reverse(Tail(q)), Head(q))

\* Mutant of HistoryClean: the cleaned entries are stored newest first.
HistoryCleanNewestFirst(m) ==
  LET validCommands == DOMAIN m.commands \ DOMAIN builtInCommands
      cleaned == Reverse(FilterValid(Distinct(m.history, {}), validCommands))
      m1 == [m EXCEPT !.history = cleaned, !.limit = Undefined,
                      !.position = Len(cleaned)]
      m2 == [m1 EXCEPT !.storage = Memorize(@, "history", JsonOfHistory(cleaned))]
  IN  WriteLn(m2, "The history has been cleaned.", << >>)

\* case "--clean": a new array again.
HistoryClean(m) ==
  LET validCommands == DOMAIN m.commands \ DOMAIN builtInCommands
      cleaned == FilterValid(Distinct(m.history, {}), validCommands)
      m1 == [m EXCEPT !.history = cleaned, !.limit = Undefined,
                      !.position = Len(cleaned)]
      m2 == [m1 EXCEPT !.storage = Memorize(@, "history", JsonOfHistory(cleaned))]
  IN  WriteLn(m2, "The history has been cleaned.", << >>)

\* The body of if ((typeof limitValue === "number") || (/[0-9]+/.test(limitValue))):
\* the array is spliced in place, its position is not touched.
HistorySetLimit(m, n) ==
  LET h == SpliceToLimit(m.history, n)
      m1 == [m EXCEPT !.limit = n, !.history = h]
      m2 == WriteLn(m1, "The history is limited to <limit> itmes.",
                    NumberToString(n))
  IN  [m2 EXCEPT !.storage =
         Memorize(Memorize(@, "history", JsonOfHistory(h)),
                  "history_limit", JsonOfNumber(n))]

\* case "--limit": limitValue is the argument after --limit when it is not
\* empty, else cli.history.limit.
HistoryLimit(m, args) ==
  LET v == getNamedArgumentValue(args, OPT_LIMIT).value
  IN  IF v # << >>
      THEN IF HasDigit(v) THEN HistorySetLimit(m, StringToNumber(v))
           ELSE WriteLn(m, "history: Not a number: ", v)
      ELSE IF m.limit.tag \in {"number", "NaN"} THEN HistorySetLimit(m, m.limit)
           ELSE WriteLn(m, "history: Not a number: ", NumberToString(m.limit))

\* builtInCommands.history
HistoryCommand(m, args) ==
  IF args = << >> THEN WriteLn(m, "history", Join(m.history, << "\n" >>))
  ELSE CASE args[1] = OPT_USAGE ->
              WriteLn(WriteLn(WriteLn(WriteLn(m, "Usage: history [option]", << >>),
                "Display or manage the list of all that has been entered.", << >>),
                "Optional arguments to manage the history:", << >>),
                "--clean --clear --limit", << >>)
         [] args[1] = OPT_CLEAR -> HistoryClear(m)
         [] args[1] = OPT_CLEAN -> HistoryClean(m)
         [] args[1] = OPT_LIMIT -> HistoryLimit(m, args)
         [] OTHER -> WriteLn(m, "history: Invalid argument: ", args[1])

(***************************************************************************)
(* The evaluator: eval, __loop, __eval, __handleError.                     *)
(***************************************************************************)
\* Mutant of HandleError: the error is logged to the console only.
HandleErrorSilent(m, error) == m

\* __handleError: this.writeLn(`\x1b[31m${error}`); console.error(error);
HandleError(m, error) == [m EXCEPT !.body = Append(@, ErrorLine(error))]

(***************************************************************************)
(* readKey, readLn and readSecret, as a command function calls them.       *)
(***************************************************************************)
UPPER ==
  << "A", "B", "C", "D", "E", "F", "G", "H", "I", "J", "K", "L", "M", "N", "O", "P",
     "Q", "R", "S", "T", "U", "V", "W", "X", "Y", "Z" >>
LOWER ==
  << "a", "b", "c", "d", "e", "f", "g", "h", "i", "j", "k", "l", "m", "n", "o", "p",
     "q", "r", "s", "t", "u", "v", "w", "x", "y", "z" >>

\* String.prototype.toLowerCase and toUpperCase
LowerChar(c) ==
  IF \E i \in DOMAIN UPPER : UPPER[i] = c
  THEN LOWER[CHOOSE i \in DOMAIN UPPER : UPPER[i] = c] ELSE c
UpperChar(c) ==
  IF \E i \in DOMAIN LOWER : LOWER[i] = c
  THEN UPPER[CHOOSE i \in DOMAIN LOWER : LOWER[i] = c] ELSE c
ToLowerCase(str) == [i \in DOMAIN str |-> LowerChar(str[i])]
ToUpperCase(str) == [i \in DOMAIN str |-> UpperChar(str[i])]

\* /^f\d/i.test(event.key)
IsFunctionKey(key) == Len(key) >= 2 /\ key[1] \in {"f", "F"} /\ IsDigit(key[2])

\* lKeys.includes(k)
Includes(list, k) == \E i \in DOMAIN list : list[i] = k

\* Values of event.key
ENTER_KEY == << "E", "n", "t", "e", "r" >>
ESCAPE_KEY == << "E", "s", "c", "a", "p", "e" >>
BACKSPACE_KEY == << "B", "a", "c", "k", "s", "p", "a", "c", "e" >>
F1_KEY == << "F", "1" >>

\* this.receiveInput(prompt, handler) of a request: the prompt is written and
\* the timer that appends the input element is set. The request belongs to the
\* statement that is running, the last one started.
OpenRequest(m, kind, keys) ==
  [WriteLn(m, "read prompt", << >>) EXCEPT
     !.reading = [kind |-> kind, phase |-> "timer", keys |-> keys, secret |-> << >>,
                  key |-> << >>, stmt |-> Len(m.started)]]

\* readKey(keys, prompt) up to the return of the Promise:
\* lKeys = [...keys.map((k) => k.toLowerCase())]
ReadKey(m, keys) ==
  OpenRequest(m, "readKey", [i \in DOMAIN keys |-> ToLowerCase(keys[i])])

\* readLn(prompt) up to the return of the Promise
ReadLn(m) == OpenRequest(m, "readLn", << >>)

\* readSecret(prompt) up to the return of the Promise: let secret = ""
ReadSecret(m) == OpenRequest(m, "readSecret", << >>)

\* The keys the command of the page accepts.
ACCEPTED_KEYS == << << "y" >>, << "N" >>, F1_KEY, ESCAPE_KEY >>

\* commandFunction(this, ...args) for a command of the page: it writes a line,
\* then returns, throws or returns a Promise, which may be that of a request.
\* result tells which.
CallCustom(m, func, cmd, args) ==
  LET m1 == WriteLn(m, "output", cmd)
  IN  CASE func = "throws" -> [m |-> m1, result |-> "threw"]
        [] func = "promise" -> [m |-> m1, result |-> "promise"]
        [] func = "reads key" -> [m |-> ReadKey(m1, ACCEPTED_KEYS), result |-> "promise"]
        [] func = "reads line" -> [m |-> ReadLn(m1), result |-> "promise"]
        [] func = "reads secret" -> [m |-> ReadSecret(m1), result |-> "promise"]
        [] OTHER -> [m |-> m1, result |-> "returned"]

\* commandFunction(this, ...args)
Call(m, func, cmd, args) ==
  CASE func = "builtin clear" -> [m |-> ClearCommand(m, args), result |-> "returned"]
    [] func = "builtin help" -> [m |-> HelpCommand(m, args), result |-> "returned"]
    [] func = "builtin history" -> [m |-> HistoryCommand(m, args), result |-> "returned"]
    [] OTHER -> CallCustom(m, func, cmd, args)

\* Mutant of ImmediateContinue: immediateContinue is never set to false, so
\* __continue is called although the Promise of the command is pending.
ImmediateContinueAlways(result) == TRUE

\* immediateContinue at the end of __eval: it is false only when the command
\* returned a Promise, and then __continue is left to cmdResult.finally.
ImmediateContinue(result) == result # "promise"

\* Mutant of TryCall: the error line of a throwing command is written before
\* the command has written its output.
TryCallErrorFirst(m, func, cmd, args) ==
  LET c == Call(m, func, cmd, args)
  IN  IF c.result = "threw"
      THEN [c EXCEPT !.m = Call(HandleError(m, cmd), func, cmd, args).m]
      ELSE c

\* The try block of __eval and its catch: the state after the command function
\* was called and a thrown error was handled.
TryCall(m, func, cmd, args) ==
  LET c == Call(m, func, cmd, args)
  IN  IF c.result = "threw" THEN [c EXCEPT !.m = HandleError(c.m, cmd)] ELSE c

\* __eval(string): the statement is started; a statement whose Promise is
\* pending leaves the __eval Promise pending ("wait"), any other resolves it, which
\* queues the .finally(__loop) job ("loop").
EvalStatement(m, string) ==
  LET inputValues == ExecCommand(string)
      cmd == inputValues.cmd
      i == Len(m.started) + 1
      m0 == [m EXCEPT !.started = Append(@, string)]
      args == Arguments(inputValues.rest)
      c == IF ~inputValues.matched THEN [m |-> m0, result |-> "no match"]
           ELSE IF cmd \in DOMAIN m.commands
           THEN TryCall([m0 EXCEPT !.calls = Append(@, [stmt |-> i, cmd |-> cmd,
                                                        args |-> args])],
                        m.commands[cmd], cmd, args)
           ELSE [m |-> [m0 EXCEPT !.body = Append(@, UnknownLine(cmd))],
                 result |-> "unknown"]
  IN  [c.m EXCEPT !.outcomes = Append(@, c.result),
                  !.pending = IF c.result = "promise" THEN @ \cup {i} ELSE @,
                  !.pc = IF ImmediateContinue(c.result) THEN "loop" ELSE "wait"]

\* Mutant of Loop: resolve() is called as soon as the first statement was
\* started.
LoopResolveFirst(m) ==
  IF m.chunks # << >>
  THEN [EvalStatement([m EXCEPT !.chunks = Tail(@)], Head(m.chunks))
          EXCEPT !.promise = "fulfilled", !.pc = "done"]
  ELSE [m EXCEPT !.promise = "fulfilled", !.pc = "done"]

\* __loop: let chunk = chunks.shift(); if (!!chunk) __eval(chunk).finally(__loop)
\* else resolve().
Loop(m) ==
  IF m.chunks # << >>
  THEN EvalStatement([m EXCEPT !.chunks = Tail(@)], Head(m.chunks))
  ELSE [m EXCEPT !.promise = "fulfilled", !.pc = "done"]

\* eval(expr): the executor of the new Promise runs at once, up to the end of
\* the first __loop.
Eval(m, expr) ==
  LET split == Chunks(expr)
  IN  Loop([m EXCEPT !.chunks = split, !.stmts = split, !.started = << >>,
                     !.outcomes = << >>, !.calls = << >>, !.answers = << >>,
                     !.promise = "pending"])

\* Mutant of Settled: cmdResult.then(__continue).catch(__handleError), which
\* never calls __continue for a rejected Promise.
SettledThenOnly(m, i, fulfilled) ==
  LET m1 == IF fulfilled THEN m ELSE HandleError(m, ExecCommand(m.started[i]).cmd)
  IN  [m1 EXCEPT !.pending = @ \ {i},
                 !.outcomes[i] = IF fulfilled THEN "resolved" ELSE "rejected",
                 !.pc = IF @ = "wait" /\ fulfilled THEN "loop" ELSE @]

\* cmdResult.catch(__handleError).finally(__continue) once the Promise of
\* statement i settles: __continue resolves the Promise of __eval, and a Promise
\* that is resolved already stays as it is.
Settled(m, i, fulfilled) ==
  LET m1 == IF fulfilled THEN m ELSE HandleError(m, ExecCommand(m.started[i]).cmd)
  IN  [m1 EXCEPT !.pending = @ \ {i},
                 !.outcomes[i] = IF fulfilled THEN "resolved" ELSE "rejected",
                 !.pc = IF @ = "wait" THEN "loop" ELSE @]

(***************************************************************************)
(* The key handlers of readKey, readLn and readSecret.                     *)
(***************************************************************************)
\* Mutant of Resolve: the value is pushed to the history as a committed line
\* is, and the cursor follows.
ResolveRecorded(m, span, value) ==
  Settled([m EXCEPT !.body = Append(@, span), !.answers = Append(@, value),
                    !.reading = NoRead,
                    !.history = Append(@, value),
                    !.position = Len(m.history) + 1],
          m.reading.stmt, TRUE)

\* Mutant of Resolve: the input element is not replaced, so the request stays
\* open after its Promise was fulfilled.
ResolveKeepsElement(m, span, value) ==
  Settled([m EXCEPT !.body = Append(@, span), !.answers = Append(@, value)],
          m.reading.stmt, TRUE)

\* inputEle.replaceWith(span); resolve(value): the span is in the body, the
\* request is over and the Promise of the command is fulfilled with value.
Resolve(m, span, value) ==
  Settled([m EXCEPT !.body = Append(@, span), !.answers = Append(@, value),
                    !.reading = NoRead],
          m.reading.stmt, TRUE)

\* The key handler of readKey for an event with event.key = key.
OnReadKey(m, key) ==
  LET m1 == [m EXCEPT !.reading.key = key]
  IN  IF ~IsFunctionKey(key) /\ Includes(m.reading.keys, ToLowerCase(key))
      THEN Resolve(m1, Line("span", key), ToUpperCase(key))
      ELSE m1

\* The key handler of readLn; text is the innerText of the input element.
OnReadLnKey(m, key, text) ==
  LET m1 == [m EXCEPT !.reading.key = key]
  IN  CASE key = ESCAPE_KEY -> [m |-> m1, input |-> << >>]
        [] key = ENTER_KEY ->
             [m |-> Resolve(m1, Line("input", text), text), input |-> << >>]
        [] OTHER -> [m |-> m1, input |-> text]

\* The key handler of readSecret.
OnReadSecretKey(m, key) ==
  LET m1 == [m EXCEPT !.reading.key = key]
      secret == m.reading.secret
  IN  CASE key = ENTER_KEY -> Resolve(m1, Line("span", << >>), secret)
        [] key = BACKSPACE_KEY ->
             [m1 EXCEPT !.reading.secret =
                IF secret = << >> THEN << >> ELSE SubSeq(secret, 1, Len(secret) - 1)]
        [] OTHER ->
             IF Len(key) = 1 THEN [m1 EXCEPT !.reading.secret = secret \o key]
             ELSE m1

(***************************************************************************)
(* The shell: the key handler of the constructor and receiveInput.         *)
(***************************************************************************)
\* if (this.history[this.history.length - 1] !== inputString)
\*   this.history.push(inputString.trim());
PushUnlessLast(h, inputString) ==
  IF h = << >> \/ h[Len(h)] # inputString THEN Append(h, Trim(inputString)) ELSE h

\* The statements of case "Enter" up to this.memorize("history", this.history).
Record(m, inputString) ==
  IF HasWordChar(inputString)
  THEN LET h == SpliceToLimit(PushUnlessLast(m.history, inputString), m.limit)
       IN  [m EXCEPT !.history = h, !.position = Len(h),
                     !.storage = Memorize(@, "history", JsonOfHistory(h))]
  ELSE m

\* Mutant of OnEnter: eval is called first and the line is recorded after it.
OnEnterEvalFirst(m, inputString) ==
  Record(Eval([m EXCEPT !.body = << Line("input", inputString) >>], Trim(inputString)),
         inputString)

\* case "Enter": the input element is replaced by a span holding its text, the
\* line is recorded and eval is called on the trimmed line.
OnEnter(m, inputString) ==
  Eval(Record([m EXCEPT !.body = << Line("input", inputString) >>], inputString),
       Trim(inputString))

\* inputEle.innerText = this.history[k]: the entry at the zero-based index k;
\* an index outside the array reads undefined, which the element shows as text.
UNDEFINED == << "u", "n", "d", "e", "f", "i", "n", "e", "d" >>
EntryText(h, k) == IF k + 1 \in DOMAIN h THEN h[k + 1] ELSE UNDEFINED

\* case "ArrowUp": the new position and the new text of the input element.
OnArrowUp(h, pos, text) ==
  IF pos > 0 /\ Len(h) > 0
  THEN [position |-> pos - 1, input |-> EntryText(h, pos - 1)]
  ELSE [position |-> pos, input |-> text]

\* case "ArrowDown"
OnArrowDown(h, pos, text) ==
  IF pos < Len(h)
  THEN [position |-> pos + 1,
        input |-> IF pos + 1 = Len(h) THEN << >> ELSE EntryText(h, pos + 1)]
  ELSE [position |-> pos, input |-> text]

\* receiveInput(prompt, keyHandler) up to setTimeout: the prompt is written.
ReceiveInput(m) == [WriteLn(m, "prompt", << >>) EXCEPT !.pc = "timer"]

\* Mutant of Construct: the startup expression is recorded as a committed
\* line is.
ConstructRecording(stored, custom, motd, startup) ==
  LET h == LoadHistory(stored.history)
  IN  Eval(Record([commands |-> Registry(builtInCommands, custom),
                   history |-> h,
                   position |-> Len(h),
                   limit |-> LoadLimit(stored.history_limit),
                   storage |-> stored,
                   body |-> IF motd THEN << Line("motd", << >>) >> ELSE << >>,
                   pc |-> "loop", chunks |-> << >>, pending |-> {},
                   promise |-> "pending", stmts |-> << >>, started |-> << >>,
                   outcomes |-> << >>, calls |-> << >>,
                   reading |-> NoRead, answers |-> << >>], startup),
           startup)

\* The constructor: the stored blob is read, the registry is built, the motd is
\* written and eval(options?.startup ?? "") is called.
Construct(stored, custom, motd, startup) ==
  LET h == LoadHistory(stored.history)
  IN  Eval([commands |-> Registry(builtInCommands, custom),
            history |-> h,
            position |-> Len(h),
            limit |-> LoadLimit(stored.history_limit),
            storage |-> stored,
            body |-> IF motd THEN << Line("motd", << >>) >> ELSE << >>,
            pc |-> "loop", chunks |-> << >>, pending |-> {}, promise |-> "pending",
            stmts |-> << >>, started |-> << >>, outcomes |-> << >>, calls |-> << >>,
            reading |-> NoRead, answers |-> << >>],
           startup)

(***************************************************************************)
(* The actions.                                                            *)
(***************************************************************************)
\* The queued .finally(__loop) job runs.
LoopJob ==
  /\ pc = "loop"
  /\ Becomes(Loop(This))
  /\ UNCHANGED input

\* The Promise a command returned settles, fulfilled or rejected; the Promise
\* of an open request settles with the request only.
Settle ==
  /\ pending # {}
  /\ reading.kind = "none"
  /\ \E i \in pending, fulfilled \in BOOLEAN : Becomes(Settled(This, i, fulfilled))
  /\ UNCHANGED input

\* The job queued on the Promise of eval runs: receiveInput(this.prompt, keyHandler).
PromptJob ==
  /\ pc = "done"
  /\ Becomes(ReceiveInput(This))
  /\ UNCHANGED input

\* The setTimeout of receiveInput fires: the empty input element is appended to
\* the body and focused.
TimerFires ==
  /\ pc = "timer"
  /\ pc' = "input"
  /\ input' = << >>
  /\ UNCHANGED << commands, history, position, limit, storage, body, chunks,
                  pending, promise, stmts, started, outcomes, calls, reading,
                  answers >>

\* The user edits the text of the input element to one of the lines of L.
Type(L) ==
  /\ pc = "input"
  /\ \E l \in L : l # input /\ input' = l
  /\ UNCHANGED << commands, history, position, limit, storage, body, pc, chunks,
                  pending, promise, stmts, started, outcomes, calls, reading,
                  answers >>

\* Mutant of ArrowUp: the input element stays in the body after Enter, so the
\* key reaches the handler while a statement waits for its Promise.
ArrowUpWhileWaiting ==
  /\ pc \in {"input", "wait"}
  /\ LET r == OnArrowUp(history, position, input)
     IN  position' = r.position /\ input' = r.input
  /\ UNCHANGED << commands, history, limit, storage, body, pc, chunks, pending,
                  promise, stmts, started, outcomes, calls, reading, answers >>

\* keyHandler, case "ArrowUp"
ArrowUp ==
  /\ pc = "input"
  /\ LET r == OnArrowUp(history, position, input)
     IN  position' = r.position /\ input' = r.input
  /\ UNCHANGED << commands, history, limit, storage, body, pc, chunks, pending,
                  promise, stmts, started, outcomes, calls, reading, answers >>

\* keyHandler, case "ArrowDown"
ArrowDown ==
  /\ pc = "input"
  /\ LET r == OnArrowDown(history, position, input)
     IN  position' = r.position /\ input' = r.input
  /\ UNCHANGED << commands, history, limit, storage, body, pc, chunks, pending,
                  promise, stmts, started, outcomes, calls, reading, answers >>

\* Mutant of Escape: the key drops the entries of the history as well.
EscapeDropsEntries ==
  /\ pc = "input"
  /\ input' = << >>
  /\ history' = << >>
  /\ UNCHANGED << commands, position, limit, storage, body, pc, chunks,
                  pending, promise, stmts, started, outcomes, calls, reading,
                  answers >>

\* keyHandler, case "Escape"
Escape ==
  /\ pc = "input"
  /\ input' = << >>
  /\ UNCHANGED << commands, history, position, limit, storage, body, pc, chunks,
                  pending, promise, stmts, started, outcomes, calls, reading,
                  answers >>

\* keyHandler, case "Enter": the element is replaced, so no key reaches it any
\* more. The model stops committing once the history holds MaxHist entries.
Enter ==
  /\ pc = "input"
  /\ Len(history) < MaxHist
  /\ Becomes(OnEnter(This, input))
  /\ input' = << >>

\* The setTimeout of the receiveInput of a request fires: the empty input
\* element is appended to the body and focused.
ReadTimerFires ==
  /\ reading.phase = "timer"
  /\ reading' = [reading EXCEPT !.phase = "input"]
  /\ input' = << >>
  /\ UNCHANGED << commands, history, position, limit, storage, body, pc, chunks,
                  pending, promise, stmts, started, outcomes, calls, answers >>

\* A key of K goes down on the input element of readKey.
ReadKeyDown(K) ==
  /\ reading.kind = "readKey" /\ reading.phase = "input"
  /\ \E key \in K : Becomes(OnReadKey(This, key))
  /\ UNCHANGED input

\* The user edits the text of the input element of readLn to one of the lines
\* of L.
ReadLnType(L) ==
  /\ reading.kind = "readLn" /\ reading.phase = "input"
  /\ \E l \in L : l # input /\ input' = l
  /\ UNCHANGED << commands, history, position, limit, storage, body, pc, chunks,
                  pending, promise, stmts, started, outcomes, calls, reading,
                  answers >>

\* A key of K goes down on the input element of readLn.
ReadLnKeyDown(K) ==
  /\ reading.kind = "readLn" /\ reading.phase = "input"
  /\ \E key \in K :
       LET r == OnReadLnKey(This, key, input)
       IN  Becomes(r.m) /\ input' = r.input

\* A key of K goes down on the input element of readSecret. The model stops
\* adding characters once the secret holds MaxSecret of them.
ReadSecretKeyDown(K) ==
  /\ reading.kind = "readSecret" /\ reading.phase = "input"
  /\ \E key \in K :
       /\ Len(key) = 1 => Len(reading.secret) < MaxSecret
       /\ Becomes(OnReadSecretKey(This, key))
  /\ UNCHANGED input

\* The steps of a session whose user types the lines of L.
NextOver(L) ==
  \/ LoopJob
  \/ Settle
  \/ PromptJob
  \/ TimerFires
  \/ Type(L)
  \/ ArrowUp
  \/ ArrowDown
  \/ Escape
  \/ Enter

\* The state after the constructor, for a stored blob of Stored, a startup
\* expression of Startups and the commands of a page of Customs.
InitWith(Stored, Startups, Customs) ==
  \E stored \in Stored, startup \in Startups, custom \in Customs, motd \in BOOLEAN :
    LET m == Construct(stored, custom, motd, startup)
    IN  /\ commands = m.commands
        /\ history = m.history
        /\ position = m.position
        /\ limit = m.limit
        /\ storage = m.storage
        /\ body = m.body
        /\ pc = m.pc
        /\ chunks = m.chunks
        /\ pending = m.pending
        /\ promise = m.promise
        /\ stmts = m.stmts
        /\ started = m.started
        /\ outcomes = m.outcomes
        /\ calls = m.calls
        /\ reading = m.reading
        /\ answers = m.answers
        /\ input = << >>

\* The same for the commands of the demo page.
InitOver(Stored, Startups) == InitWith(Stored, Startups, {CustomCommands})

(***************************************************************************)
(* The shell session: the history, its cursor and its limit.               *)
(***************************************************************************)
\* The blob when nothing was stored yet.
NoBlob ==
  [history |-> [present |-> FALSE, value |-> << >>],
   history_limit |-> [tag |-> "absent", val |-> 0]]

\* A blob an earlier session left: history_limit as memorize stored it.
BlobWithLimit(n) == [NoBlob EXCEPT !.history_limit = Num(n)]

LINE_LS == LS
LINE_LS_PADDED == LS \o SP
LINE_PWD == PWD
LINE_SLOW == SLOW
LINE_HISTORY_CLEAR == HISTORY \o SP \o OPT_CLEAR
LINE_HISTORY_LIMIT_1 == HISTORY \o SP \o OPT_LIMIT \o SP \o << "1" >>
LINE_HISTORY_CLEAN == HISTORY \o SP \o OPT_CLEAN
\* A line without a word character.
LINE_NO_WORD == SP \o OPT_USAGE

ShellStored == {NoBlob, BlobWithLimit(2)}
ShellLines ==
  {LINE_LS, LINE_LS_PADDED, LINE_PWD, LINE_SLOW, LINE_HISTORY_CLEAR,
   LINE_HISTORY_LIMIT_1, LINE_NO_WORD, LINE_HISTORY_CLEAN}

Init == InitOver(ShellStored, {<< >>})
Next == NextOver(ShellLines)
Spec == Init /\ [][Next]_vars

(***************************************************************************)
(* The evaluator: a session started on an expression, then on lines.       *)
(***************************************************************************)
SEMI == << ";" >>
NL == << "\n" >>
FROBNICATE == << "f", "r", "o", "b", "n", "i", "c", "a", "t", "e" >>
X_IS_5 == << "x", "=", "5" >>
X_IS == << "x", "=" >>
FOO_IS_BAR == << "f", "o", "o", "=", "b", "a", "r" >>
BAR == << "b", "a", "r" >>
DOLLAR_FOO == << "$", "f", "o", "o" >>
DOLLAR_FOOBAZ == << "$", "f", "o", "o", "b", "a", "z" >>
FLAG_DOLLAR_FOO == << "-", "$", "f", "o", "o" >>
FLAG_V == << "-", "-", "v", "=", "$", "f", "o", "o" >>
OK == << "o", "k" >>

STMT_ECHO_OK == ECHO \o SP \o OK
STMT_FROBNICATE_X == FROBNICATE \o SP \o << "x" >>
STMT_ECHO_FOO == ECHO \o SP \o DOLLAR_FOO \o SP \o DOLLAR_FOOBAZ
STMT_ECHO_FLAGS == ECHO \o SP \o FLAG_DOLLAR_FOO \o SP \o SP \o DOLLAR_FOO \o SP \o FLAG_V

EXPR_BAD_ECHO == BAD \o SEMI \o SP \o STMT_ECHO_OK
EXPR_SLOW_LS_SLOW == SLOW \o SP \o SEMI \o LS \o NL \o SLOW
EXPR_LS_BAD_SLOW_PWD == LS \o SEMI \o BAD \o SEMI \o SEMI \o SP \o SLOW \o SEMI \o PWD
EXPR_FROBNICATE == LS \o SEMI \o STMT_FROBNICATE_X \o SEMI \o PWD
EXPR_ASSIGN == LS \o SEMI \o X_IS_5 \o SEMI \o X_IS
EXPR_SUBSTITUTE == FOO_IS_BAR \o SEMI \o SP \o STMT_ECHO_FOO
EXPR_FLAGS == FOO_IS_BAR \o NL \o STMT_ECHO_FLAGS \o SP
EXPR_BLANK == SP \o SEMI \o SP

\* echo "a b" c; echo "" ok
QUOTE == << "\"" >>
STMT_ECHO_QUOTED == ECHO \o SP \o QUOTE \o << "a", " ", "b" >> \o QUOTE \o SP \o << "c" >>
STMT_ECHO_EMPTY == ECHO \o SP \o QUOTE \o QUOTE \o SP \o OK
EXPR_QUOTED == STMT_ECHO_QUOTED \o SEMI \o SP \o STMT_ECHO_EMPTY

\* echo 'un; echo "un ok
STMT_ECHO_UNCLOSED == ECHO \o SP \o QUOTE \o << "u", "n" >> \o SP \o OK
STMT_ECHO_APOSTROPHE == ECHO \o SP \o << "'", "u", "n" >>
EXPR_UNCLOSED == STMT_ECHO_APOSTROPHE \o SEMI \o SP \o STMT_ECHO_UNCLOSED

\* ls; clear --?; help --?; history --?
EXPR_USAGE ==
  LS \o SEMI \o CLEAR \o SP \o OPT_USAGE \o SEMI \o HELP \o SP \o OPT_USAGE
     \o SEMI \o HISTORY \o SP \o OPT_USAGE

EvalExprs ==
  {EXPR_BAD_ECHO, EXPR_SLOW_LS_SLOW, EXPR_LS_BAD_SLOW_PWD, EXPR_FROBNICATE,
   EXPR_ASSIGN, EXPR_SUBSTITUTE, EXPR_FLAGS, EXPR_BLANK, EXPR_QUOTED, EXPR_UNCLOSED,
   EXPR_USAGE}
EvalLines ==
  {EXPR_BAD_ECHO, EXPR_SLOW_LS_SLOW, STMT_FROBNICATE_X, STMT_ECHO_FLAGS, EXPR_USAGE}

EvalInit == InitOver({NoBlob}, EvalExprs)
EvalNext == NextOver(EvalLines)
EvalSpec == EvalInit /\ [][EvalNext]_vars

\* What the queued .finally(__loop) job does to chunks and pc: it takes the
\* next statement off chunks, or resolves eval when none is left. At "loop" no
\* other action is enabled, so these are the steps of LoopJob.
LoopStep ==
  /\ pc = "loop"
  /\ chunks' = IF chunks = << >> THEN << >> ELSE Tail(chunks)
  /\ pc' \in Phases

\* The jobs the event loop has queued are run, the timer of receiveInput
\* fires, and every Promise a command returned settles.
EvalFairness ==
  /\ WF_<< pc, chunks >>(LoopStep)
  /\ WF_vars(Settle)
  /\ WF_vars(PromptJob)
  /\ WF_vars(TimerFires)
EvalLiveSpec == EvalSpec /\ EvalFairness

(***************************************************************************)
(* A page with commands of its own and a history an earlier session left.  *)
(***************************************************************************)
\* The longest stored history whose entries are enumerated.
MaxStored == 3

\* A blob an earlier session left: the history as memorize stored it.
BlobWithHistory(h) == [NoBlob EXCEPT !.history = JsonOfHistory(h)]

\* A page that replaces the built-in help, supplies ls and slow, and has
\* entries for echo and for clear that are no functions.
PageCommands ==
  [n \in {LS, HELP, ECHO, SLOW, CLEAR} |->
     CASE n \in {ECHO, CLEAR} -> "not a function"
       [] n = SLOW -> "promise"
       [] OTHER -> "returns"]

EXPR_LS_CLEAN_CLEAN == LS \o SEMI \o SP \o LINE_HISTORY_CLEAN \o NL \o LINE_HISTORY_CLEAN
EXPR_SLOW_CLEAN == SLOW \o SEMI \o LINE_HISTORY_CLEAN

\* Entries earlier commits recorded: a command of the page, an unknown
\* command, a built-in command.
PageEntries == {LS, STMT_FROBNICATE_X, HELP}
HISTORY_LONG == << STMT_FROBNICATE_X, LS, HELP, STMT_ECHO_OK, LS, PWD >>

\* The sequences over S of length n, and up to length n.
RECURSIVE SeqsOfLen(_, _)
SeqsOfLen(S, n) ==
  IF n = 0 THEN {<< >>}
  ELSE {Append(q, e) : q \in SeqsOfLen(S, n - 1), e \in S}
SeqsUpTo(S, n) == UNION {SeqsOfLen(S, k) : k \in 0..n}

PageStored ==
  {BlobWithHistory(h) : h \in SeqsUpTo(PageEntries, MaxStored) \cup {HISTORY_LONG}}
PageExprs == {EXPR_LS_CLEAN_CLEAN, EXPR_SLOW_CLEAN}
PageLines == {LINE_LS, LINE_SLOW, LINE_HISTORY_CLEAN, HELP}

PageCustoms == {CustomCommands, PageCommands}
PageInit == InitWith(PageStored, PageExprs, PageCustoms)
PageNext == NextOver(PageLines)
PageSpec == PageInit /\ [][PageNext]_vars

(***************************************************************************)
(* A page whose commands ask the user for a key, a line or a secret.       *)
(***************************************************************************)
KEY == << "k", "e", "y" >>
LINE == << "l", "i", "n", "e" >>
SECRET == << "s", "e", "c", "r", "e", "t" >>

ReadCommands ==
  [n \in {KEY, LINE, SECRET, LS, SLOW} |->
     CASE n = KEY -> "reads key"
       [] n = LINE -> "reads line"
       [] n = SECRET -> "reads secret"
       [] n = SLOW -> "promise"
       [] OTHER -> "returns"]

\* The keys that go down while a request is open.
ReadKeys ==
  {<< "y" >>, << "Y" >>, << "n" >>, << "x" >>, F1_KEY, ESCAPE_KEY, ENTER_KEY,
   BACKSPACE_KEY}

EXPR_KEY_LINE == KEY \o SEMI \o SP \o LINE
ReadExprs == {<< >>, EXPR_KEY_LINE}
ReadLines == {KEY, LINE, SECRET, LS, SLOW}
ReadTexts == {LS, OK \o SP}

ReadInit == InitWith({NoBlob}, ReadExprs, {ReadCommands})
ReadNext ==
  \/ NextOver(ReadLines)
  \/ ReadTimerFires
  \/ ReadKeyDown(ReadKeys)
  \/ ReadLnType(ReadTexts)
  \/ ReadLnKeyDown(ReadKeys)
  \/ ReadSecretKeyDown(ReadKeys)
ReadSpec == ReadInit /\ [][ReadNext]_vars

(***************************************************************************)
(* A session whose lines are made of separators, blanks and question       *)
(* marks: no line holds a word character, so none is recorded.             *)
(***************************************************************************)
SplitLines == SeqsUpTo({"?", " ", ";", "\n"}, MaxExpr) \ {<< >>}

\* The user types a line of L into the empty input element.
TypeFresh(L) == input = << >> /\ Type(L)

SplitInit == InitOver({NoBlob}, {<< >>})
SplitNext ==
  \/ LoopJob
  \/ PromptJob
  \/ TimerFires
  \/ TypeFresh(SplitLines)
  \/ Escape
  \/ Enter
SplitSpec == SplitInit /\ [][SplitNext]_vars

(***************************************************************************)
(* The limit of the history: a session of history --limit commands.        *)
(***************************************************************************)
LINE_HISTORY_LIMIT == HISTORY \o SP \o OPT_LIMIT
LINE_HISTORY_LIMIT_X == LINE_HISTORY_LIMIT \o SP \o << "x" >>
LINE_HISTORY_LIMIT_2X == LINE_HISTORY_LIMIT \o SP \o << "2", "x" >>

LimitLines ==
  {LINE_LS, LINE_SLOW, LINE_HISTORY_LIMIT, LINE_HISTORY_LIMIT_1,
   LINE_HISTORY_LIMIT_X, LINE_HISTORY_LIMIT_2X}

LimitInit == InitOver(ShellStored, {<< >>})
LimitNext == NextOver(LimitLines)
LimitSpec == LimitInit /\ [][LimitNext]_vars

(***************************************************************************)
(* Properties of the evaluator.                                            *)
(***************************************************************************)
Last(q) == q[Len(q)]
IsPrefixOf(p, q) == Len(p) <= Len(q) /\ p = SubSeq(q, 1, Len(p))
Failed(o) == o \in {"threw", "rejected"}

\* The span << a, b >> of the first white-space-delimited token of s: the
\* non-space characters that follow the leading white space (<< 1, 0 >> when s is
\* blank).
TokenSpan(s) ==
  IF \A j \in 1..Len(s) : IsSpace(s[j]) THEN << 1, 0 >>
  ELSE LET a == CHOOSE a \in 1..Len(s) :
                  ~IsSpace(s[a]) /\ \A j \in 1..(a - 1) : IsSpace(s[j])
           b == CHOOSE b \in a..Len(s) :
                  /\ \A j \in a..b : ~IsSpace(s[j])
                  /\ (b = Len(s) \/ IsSpace(s[b + 1]))
       IN  << a, b >>

FirstToken(s) == Sub(s, TokenSpan(s)[1], TokenSpan(s)[2])

\* The white-space-delimited tokens of s, from left to right.
RECURSIVE Words(_)
Words(s) ==
  IF FirstToken(s) = << >> THEN << >>
  ELSE << FirstToken(s) >> \o Words(Sub(s, TokenSpan(s)[2] + 1, Len(s)))

\* t occurs in s as a run of consecutive characters.
OccursIn(t, s) == \E a \in 1..(Len(s) + 1) : Sub(s, a, a + Len(t) - 1) = t

Flags(args) == SelectSeq(args, StartsWithDash)
Lines(b) == {b[k] : k \in DOMAIN b}

\* C1: the statements of the expression are started in order, each once: what
\* was started and what is left make up the split expression. While the Promise
\* of a statement is pending it is the last statement started and no job that
\* would start the next one is queued. The Promise of eval is fulfilled only
\* when every statement was started and none is pending.
C1_SequentialStatements ==
  /\ started \o chunks = stmts
  /\ Len(outcomes) = Len(started)
  /\ pending # {} =>
       /\ pending = {Len(started)}
       /\ outcomes[Len(started)] = "promise"
       /\ pc = "wait"
       /\ promise = "pending"
  /\ \A i \in DOMAIN outcomes : outcomes[i] = "promise" <=> i \in pending
  /\ promise = "fulfilled" => started = stmts /\ pending = {}

\* An expression of three statements has completed, the first of which returned
\* a Promise that was fulfilled.
C1_Witness ==
  /\ promise = "fulfilled"
  /\ Len(started) = 3
  /\ outcomes = << "resolved", "returned", "rejected" >>

\* C2: a statement that threw or whose Promise was rejected does not stop the
\* expression: the next statement has been started or the job that starts it is
\* queued, and the statements started are the first ones of the expression. In
\* the step in which a statement fails, the error line is the last line written.
C2_FailureIsolation ==
  /\ [](/\ IsPrefixOf(started, stmts)
        /\ \A i \in DOMAIN outcomes :
             (Failed(outcomes[i]) /\ i < Len(stmts)) => (Len(started) > i \/ pc = "loop")
        /\ (promise = "fulfilled") => (started = stmts))
  /\ [][\A i \in DOMAIN outcomes' :
          (Failed(outcomes'[i]) /\ ~(i \in DOMAIN outcomes /\ Failed(outcomes[i])))
          => (body' # << >> /\ Last(body') = ErrorLine(FirstToken(started'[i])))]_vars

\* An expression has completed in which one statement threw and a later one had
\* its Promise rejected, and a statement after them returned.
C2_Witness ==
  /\ promise = "fulfilled"
  /\ outcomes = << "returned", "threw", "rejected", "returned" >>
  /\ ErrorLine(BAD) \in {body[k] : k \in DOMAIN body}
  /\ ErrorLine(SLOW) \in {body[k] : k \in DOMAIN body}

\* C3: the Promise of eval is pending or fulfilled, never rejected. While it is
\* pending the evaluation is not stuck: the job that starts the next statement is
\* queued, or the Promise of a command is pending. Once nothing is left to do it
\* is fulfilled.
C3_EvalNeverRejects ==
  /\ promise \in {"pending", "fulfilled"}
  /\ promise = "pending" => (pc = "loop" \/ (pc = "wait" /\ pending # {}))
  /\ pc \in {"done", "timer", "input"} => promise = "fulfilled"

\* eval has resolved after a statement threw and the Promise of another was
\* rejected.
C3_Witness ==
  /\ promise = "fulfilled"
  /\ pc = "done"
  /\ \E i \in DOMAIN outcomes : outcomes[i] = "threw"
  /\ \E i \in DOMAIN outcomes : outcomes[i] = "rejected"

\* C4: when the job that starts the next statement finds a first token that is
\* no registered command, it writes exactly the line "Unknown command: " with
\* that token, leaves the history, its cursor and limit, the registry and the
\* stored blob as they are, and queues the job for the statement after it.
C4_UnknownCommand ==
  [][(pc = "loop" /\ chunks # << >>
        /\ FirstToken(Head(chunks)) \notin DOMAIN commands)
      => /\ body' = Append(body, UnknownLine(FirstToken(Head(chunks))))
         /\ UNCHANGED << commands, history, position, limit, storage >>
         /\ started' = Append(started, Head(chunks))
         /\ chunks' = Tail(chunks)
         /\ pc' = "loop"]_vars

\* The second statement of an expression was an unknown command whose token
\* holds a character that is no word character, and the third has been started.
C4_Witness ==
  /\ Len(started) = 3
  /\ started[2] = X_IS_5
  /\ outcomes[2] = "unknown"
  /\ UnknownLine(X_IS_5) \in Lines(body)

\* A statement has the form name=value: its first token holds a "=" after at
\* least one other character.
HasAssignmentForm(t) == \E k \in 2..Len(t) : t[k] = "="

\* C5 (as claimed): a statement of the form name=value is an assignment and is
\* never looked up as a command, so no "Unknown command" line names it.
C5_AssignmentPrecedence ==
  \A k \in DOMAIN body :
    ~(body[k].kind = UnknownLine(<< >>).kind /\ HasAssignmentForm(body[k].text))

\* C6 (as claimed): once foo=bar was evaluated, the command of the statement
\* echo $foo $foobaz is called with bar and $foobaz.
C6_WordBoundarySubstitution ==
  \A k \in DOMAIN calls :
    (/\ started[calls[k].stmt] = STMT_ECHO_FOO
     /\ \E j \in 1..(calls[k].stmt - 1) : started[j] = FOO_IS_BAR)
    => calls[k].args = << BAR, DOLLAR_FOOBAZ >>

\* C7: the arguments that start with "-" reach the command function as they
\* stand in the statement: each occurs in the statement character for character,
\* and for a statement without double quotes they are, in order, the
\* white-space-delimited tokens after the command name that start with "-".
C7_FlagExemption ==
  \A k \in DOMAIN calls :
    LET stmt == started[calls[k].stmt]
    IN  /\ \A a \in DOMAIN calls[k].args :
             StartsWithDash(calls[k].args[a]) => OccursIn(calls[k].args[a], stmt)
        /\ (\A j \in DOMAIN stmt : stmt[j] # "\"")
             => Flags(calls[k].args) = Flags(Tail(Words(stmt)))

\* After foo=bar was evaluated, a command was called with flags that hold $foo.
C7_Witness ==
  \E k \in DOMAIN calls :
    /\ \E j \in 1..(calls[k].stmt - 1) : started[j] = FOO_IS_BAR
    /\ calls[k].args = << FLAG_DOLLAR_FOO, DOLLAR_FOO, FLAG_V >>

(***************************************************************************)
(* Properties of the history.                                              *)
(***************************************************************************)
\* A step of the key handler for Enter: the only step that leaves the phase
\* "input".
IsCommit == pc = "input" /\ pc' # "input"

\* C8 (as claimed): a commit of a line with a word character, whose command is
\* not the history command, leaves the history as it is when the trimmed line
\* equals the last entry, and otherwise appends the trimmed line (the limit
\* permitting).
C8_HistoryDedup ==
  [][(IsCommit /\ HasWordChar(input) /\ FirstToken(input) # HISTORY)
      => /\ (history # << >> /\ Last(history) = Trim(input)) => history' = history
         /\ ((history = << >> \/ Last(history) # Trim(input))
               /\ limit.tag = "number" /\ Len(history) < limit.val)
              => history' = Append(history, Trim(input))]_vars

\* The maximum size that was configured last: the history_limit of the stored
\* blob, or the default.
ConfiguredLimit ==
  IF storage.history_limit.tag = "number" THEN storage.history_limit.val
  ELSE DefaultLimit

\* C9 (as claimed): the history never holds more entries than the configured
\* maximum size.
C9_HistoryLimit == Len(history) <= ConfiguredLimit

\* C10 (as claimed): at the prompt, a step that lowers the cursor lowers it by
\* one from a cursor above 0 and shows the entry at the new cursor; a step that
\* raises it raises it by one from a cursor below the length and shows the entry
\* at the new cursor, or the empty line at the length.
C10_RecallBounds ==
  [][(pc = "input" /\ pc' = "input")
      => /\ position' < position =>
              /\ position > 0
              /\ position' = position - 1
              /\ position' + 1 \in DOMAIN history
              /\ input' = history[position' + 1]
         /\ position' > position =>
              /\ position < Len(history)
              /\ position' = position + 1
              /\ input' = IF position' = Len(history) THEN << >>
                          ELSE history[position' + 1]]_vars

\* C11 (as claimed): when the input element of a new prompt appears, so that no
\* key was pressed on it yet, the cursor equals the number of entries.
C11_CursorAtRest ==
  [][(pc # "input" /\ pc' = "input") => position' = Len(history')]_vars

(***************************************************************************)
(* Properties of history --clean.                                          *)
(***************************************************************************)
\* The statement is history --clean.
IsClean(stmt) == Words(stmt) = << HISTORY, OPT_CLEAN >>

\* The queued job starts a statement history --clean.
IsCleanStep == pc = "loop" /\ chunks # << >> /\ IsClean(Head(chunks))

\* The first token of the entry is a registered command name that is no
\* built-in command name.
ValidEntry(e) == FirstToken(e) \in DOMAIN commands \ {CLEAR, HELP, HISTORY}

\* The index of the first occurrence of e in h.
FirstIndex(h, e) == CHOOSE i \in DOMAIN h : h[i] = e /\ \A j \in 1..(i - 1) : h[j] # e

\* C12: a statement history --clean leaves exactly the valid entries of the
\* history, each once, in the order of their first occurrence, and sets the
\* cursor to the new length. A committed line history --clean leaves valid
\* entries of the earlier history only, each once, the cursor at the length.
C12_Clean ==
  [][/\ IsCleanStep =>
          /\ \A i \in DOMAIN history' :
               ValidEntry(history'[i]) /\ \E j \in DOMAIN history : history[j] = history'[i]
          /\ \A i, j \in DOMAIN history' : i # j => history'[i] # history'[j]
          /\ \A j \in DOMAIN history :
               ValidEntry(history[j]) => \E i \in DOMAIN history' : history'[i] = history[j]
          /\ \A i, j \in DOMAIN history' :
               i < j => FirstIndex(history, history'[i]) < FirstIndex(history, history'[j])
          /\ position' = Len(history')
     /\ (IsCommit /\ IsClean(input)) =>
          /\ \A i \in DOMAIN history' :
               ValidEntry(history'[i]) /\ \E j \in DOMAIN history : history[j] = history'[i]
          /\ \A i, j \in DOMAIN history' : i # j => history'[i] # history'[j]
          /\ position' = Len(history')]_vars

\* A statement history --clean of a startup expression has left three of the
\* six entries a stored history held: the duplicate, the unknown command and
\* the built-in command are gone.
C12_Witness ==
  /\ storage.history.value = << LS, STMT_ECHO_OK, PWD >>
  /\ history = << LS, STMT_ECHO_OK, PWD >>
  /\ position = 3
  /\ Len(started) = 2 /\ IsClean(started[2])
  /\ Last(body).kind = "The history has been cleaned."

\* C13: a statement history --clean that directly follows a statement
\* history --clean of the same expression changes neither the entries, nor
\* their order, nor the cursor, nor what is stored.
C13_CleanIdempotent ==
  [][(IsCleanStep /\ started # << >> /\ IsClean(Last(started)))
      => UNCHANGED << history, position, storage >>]_vars

\* history --clean has run twice in a row on a page that replaces the built-in
\* help, and one entry is left.
C13_Witness ==
  /\ Len(started) = 3 /\ IsClean(started[2]) /\ IsClean(started[3])
  /\ commands[HELP] = "returns"
  /\ history = << LS >>
  /\ position = 1

(***************************************************************************)
(* Properties of the shell prompt.                                         *)
(***************************************************************************)
\* C14: a commit hands the trimmed line to the evaluator. A line without a
\* word character leaves the history, its cursor and the stored blob as they
\* are. A line with a word character is recorded and stored before it is
\* evaluated: unless its command is the history command, the trimmed line is
\* the last entry afterwards (where the limit keeps one), the cursor is at the
\* length and the stored history is the history; the line history --clear
\* clears its own entry too, and the line history --limit 1 leaves itself as
\* the one entry.
C14_Commit ==
  [][IsCommit =>
       /\ stmts' = Chunks(Trim(input))
       /\ body'[1] = Line("input", input)
       /\ ~HasWordChar(input) => UNCHANGED << history, position, limit, storage >>
       /\ (HasWordChar(input) /\ FirstToken(input) # HISTORY) =>
            /\ (limit.tag = "number" => limit.val >= 1) =>
                 (history' # << >> /\ Last(history') = Trim(input))
            /\ position' = Len(history')
            /\ storage'.history = JsonOfHistory(history')
       /\ Trim(input) = LINE_HISTORY_CLEAR =>
            history' = << >> /\ storage'.history = JsonOfHistory(<< >>)
       /\ Trim(input) = LINE_HISTORY_LIMIT_1 =>
            history' = << LINE_HISTORY_LIMIT_1 >>
              /\ storage'.history = JsonOfHistory(history')]_vars

\* The line history --clear was committed and its statement has run: the
\* history and the stored history are empty, so the line was recorded before
\* it ran.
C14_Witness ==
  /\ body # << >> /\ body[1] = Line("input", LINE_HISTORY_CLEAR)
  /\ started = << LINE_HISTORY_CLEAR >>
  /\ storage.history = JsonOfHistory(<< >>)
  /\ history = << >>
  /\ pc = "loop"

\* The number of prompts among the lines of b.
PromptCount(b) == Cardinality({k \in DOMAIN b : b[k].kind = "prompt"})

\* C15: the prompt is written only by the job that runs once eval has
\* resolved, with every statement started and no Promise of a command pending,
\* and that job writes it once; while the Promise of a command is pending the
\* session waits; while the shell awaits input, the one prompt written since
\* the commit is the last line. If every Promise settles, the input element
\* comes back after every evaluation.
C15_PromptAfterEvaluation ==
  /\ [][PromptCount(body') > PromptCount(body)
          => /\ pc = "done" /\ promise = "fulfilled" /\ pending = {}
             /\ started = stmts /\ chunks = << >>
             /\ PromptCount(body') = PromptCount(body) + 1]_vars
  /\ [](pending # {} => (pc = "wait" /\ PromptCount(body) = 0))
  /\ [](pc \in {"loop", "wait", "done"} => PromptCount(body) = 0)
  /\ [](pc \in {"timer", "input"}
          => (body # << >> /\ Last(body).kind = "prompt" /\ PromptCount(body) = 1))
  /\ (pc \in {"loop", "wait", "done", "timer"}) ~> (pc = "input")

\* The shell awaits input again after a committed line of three statements,
\* two of which returned a Promise.
C15_Witness ==
  /\ pc = "input"
  /\ body # << >> /\ body[1] = Line("input", EXPR_SLOW_LS_SLOW)
  /\ outcomes = << "resolved", "returned", "rejected" >>
  /\ PromptCount(body) = 1

\* C16: while the Promise of a command is pending, the only step of the
\* session is the settling of that Promise: that step starts no statement,
\* and the history, its cursor, the text of the input and the expression
\* being evaluated stay as they are.
C16_NothingElseProceeds ==
  [][pending # {}
      => /\ pending' = {}
         /\ UNCHANGED << started, chunks, stmts, calls, history, position, limit,
                         storage, input, promise >>
         /\ pc' = "loop"]_vars

\* A committed line waits for the Promise of its first statement, with two
\* more statements to start and an entry in the history a recall key could
\* show.
C16_Witness ==
  /\ pending = {1}
  /\ pc = "wait"
  /\ body # << >> /\ body[1] = Line("input", EXPR_SLOW_LS_SLOW)
  /\ Len(chunks) = 2
  /\ position > 0 /\ history # << >>

\* No line was committed yet: the body holds what the constructor and the
\* startup expression wrote, and then the first prompt.
InStartup == \A k \in DOMAIN body : body[k].kind # "input"

\* C17: until the first commit, the motd is the first line of the body if it
\* is there at all; the prompt is in the body only when every statement of the
\* startup expression was started and has finished, and it is the last line;
\* the history and the stored blob are those of a first session, without any
\* statement of the startup expression.
C17_Startup ==
  InStartup =>
    /\ \A k \in DOMAIN body : body[k].kind = "motd" => k = 1
    /\ PromptCount(body) >= 1 =>
         /\ promise = "fulfilled" /\ started = stmts /\ chunks = << >>
         /\ pending = {}
         /\ \A i \in DOMAIN outcomes : outcomes[i] # "promise"
         /\ PromptCount(body) = 1 /\ Last(body).kind = "prompt"
    /\ pc \in {"timer", "input"} => PromptCount(body) = 1
    /\ history = << >> /\ position = 0 /\ storage = NoBlob

\* The first prompt is out after the motd and a startup expression of four
\* statements, one of which returned a Promise that was fulfilled.
C17_Witness ==
  /\ InStartup
  /\ pc = "input"
  /\ body[1].kind = "motd"
  /\ stmts = Chunks(EXPR_LS_BAD_SLOW_PWD)
  /\ outcomes = << "returned", "threw", "resolved", "returned" >>
  /\ Last(body).kind = "prompt"

\* C18: a step at the prompt that empties a line that was not empty, while the
\* prompt stays and the cursor does not move, is the cancel key (recall-next
\* moves the cursor, a commit takes the input element away). It leaves the
\* entries, the limit, the stored blob, the registry and the body as they are
\* and starts no evaluation.
C18_Cancel ==
  [][(pc = "input" /\ pc' = "input" /\ input # << >> /\ input' = << >>
        /\ position' = position)
      => UNCHANGED << history, limit, storage, commands, body, stmts, started,
                      chunks, pending, promise, outcomes, calls >>]_vars

\* The input is empty while the cursor is on an entry: a recalled entry was in
\* the input and the cancel key removed it.
C18_Witness ==
  /\ pc = "input"
  /\ input = << >>
  /\ position >= 0 /\ position < Len(history)
  /\ Len(history) = 2

(***************************************************************************)
(* Properties of the registry and of the arguments.                        *)
(***************************************************************************)
\* The registry is the merge of the built-in commands and the map custom.
IsMergeOf(custom) ==
  /\ \A n \in {CLEAR, HELP, HISTORY} : n \in DOMAIN commands
  /\ \A n \in DOMAIN custom : custom[n] # "not a function" => n \in DOMAIN commands
  /\ \A n \in DOMAIN commands :
       \/ n \in DOMAIN custom /\ custom[n] # "not a function" /\ commands[n] = custom[n]
       \/ /\ ~(n \in DOMAIN custom /\ custom[n] # "not a function")
          /\ n \in {CLEAR, HELP, HISTORY}
          /\ commands[n] \in {"builtin clear", "builtin help", "builtin history"}
          /\ commands[n] = builtInCommands[n]

\* C19: the registry holds every built-in name and every name of the page
\* whose value is a function, and for a name of both the function of the page.
\* The statement help then runs the function of the page, which writes its
\* output line, and not the built-in listing.
C19_RegistryMerge ==
  /\ [](\E custom \in PageCustoms : IsMergeOf(custom))
  /\ [][(pc = "loop" /\ chunks # << >> /\ Words(Head(chunks)) = << HELP >>)
          => IF IsMergeOf(PageCommands)
             THEN body' = Append(body, Line("output", HELP))
             ELSE /\ Len(body') = Len(body) + 3
                  /\ body'[Len(body) + 1].kind = "These are the available commands:"]_vars

\* On the page that supplies its own help, the committed line help has run the
\* function of the page; the built-in clear is still registered although the
\* page has an entry for clear that is no function.
C19_Witness ==
  /\ commands[HELP] = "returns"
  /\ commands[CLEAR] = "builtin clear"
  /\ ECHO \notin DOMAIN commands
  /\ started = << HELP >>
  /\ body = << Line("input", HELP), Line("output", HELP) >>

\* The arguments of the text r from index i on: a double-quoted span gives its
\* interior, any other maximal run of characters that are no white space gives
\* the run.
RECURSIVE SpanArgs(_, _)
SpanArgs(r, i) ==
  IF i > Len(r) THEN << >>
  ELSE IF IsSpace(r[i]) THEN SpanArgs(r, i + 1)
  ELSE IF r[i] = "\"" /\ \E j \in (i + 1)..Len(r) : r[j] = "\""
       THEN LET j == CHOOSE j \in (i + 1)..Len(r) :
                       r[j] = "\"" /\ \A k \in (i + 1)..(j - 1) : r[k] # "\""
            IN  << Sub(r, i + 1, j - 1) >> \o SpanArgs(r, j + 1)
       ELSE LET e == CHOOSE e \in i..Len(r) :
                       /\ \A k \in i..e : ~IsSpace(r[k])
                       /\ (e = Len(r) \/ IsSpace(r[e + 1]))
            IN  << Sub(r, i, e) >> \o SpanArgs(r, e + 1)

\* C20 (as claimed): the command function of a statement is called with the
\* arguments of the text after the command name: the interior of every
\* double-quoted span, empty or not, and every other run of characters that
\* are no white space, from left to right.
C20_Tokenization ==
  \A k \in DOMAIN calls :
    LET stmt == started[calls[k].stmt]
    IN  calls[k].args = SpanArgs(stmt, TokenSpan(stmt)[2] + 1)

\* The number of characters c in s.
CountOf(s, c) == Cardinality({k \in DOMAIN s : s[k] = c})

\* One quote character of s has no partner.
HasUnclosedQuote(s) ==
  \/ CountOf(s, "\"") = 1
  \/ CountOf(s, "\"") = 0 /\ CountOf(s, "'") = 1

\* C21: a statement with a quote that is never closed, whose first token is a
\* registered command that returns, is dispatched like any other: its function
\* is called with the white-space-delimited tokens after the command name, the
\* quote character included, only the output of the function is written, and
\* the job for the next statement is queued.
C21_UnclosedQuote ==
  [][(/\ pc = "loop" /\ chunks # << >>
      /\ HasUnclosedQuote(Head(chunks))
      /\ FirstToken(Head(chunks)) \in DOMAIN commands
      /\ commands[FirstToken(Head(chunks))] = "returns")
      => /\ calls' = Append(calls, [stmt |-> Len(started) + 1,
                                    cmd |-> FirstToken(Head(chunks)),
                                    args |-> Tail(Words(Head(chunks)))])
         /\ body' = Append(body, Line("output", FirstToken(Head(chunks))))
         /\ outcomes' = Append(outcomes, "returned")
         /\ pc' = "loop"]_vars

\* Both statements of echo 'un; echo "un ok have called echo, with the quote
\* characters in the arguments.
C21_Witness ==
  /\ Len(calls) = 2
  /\ calls[1].args = << << "'", "u", "n" >> >>
  /\ calls[2].args = << QUOTE \o << "u", "n" >>, OK >>
  /\ outcomes = << "returned", "returned" >>

(***************************************************************************)
(* Properties of the stored blob.                                          *)
(***************************************************************************)
\* The line holds a statement history --limit.
SetsLimit(line) ==
  \E i \in DOMAIN Chunks(line) :
    Len(Words(Chunks(line)[i])) >= 2
      /\ SubSeq(Words(Chunks(line)[i]), 1, 2) = << HISTORY, OPT_LIMIT >>

\* C22: once the blob holds a history it is the history of the session, and
\* every step that changes the entries stores them; such a step leaves the
\* history_limit of the blob as it is, unless it is a commit of a line with
\* history --limit, which stores the new limit.
C22_Persistence ==
  /\ [](storage.history.present => storage.history.value = history)
  /\ [][history' # history
          => /\ storage'.history = [present |-> TRUE, value |-> history']
             /\ DOMAIN storage' = DOMAIN storage
             /\ IF pc = "input" /\ SetsLimit(input)
                THEN storage'.history_limit = limit'
                ELSE storage'.history_limit = storage.history_limit]_vars

\* history --limit 1 was committed by a session whose blob held the limit 2:
\* the blob holds the one entry that is left and the new limit.
C22_Witness ==
  /\ storage.history_limit = Num(1)
  /\ storage.history = [present |-> TRUE, value |-> << LINE_HISTORY_LIMIT_1 >>]
  /\ history = << LINE_HISTORY_LIMIT_1 >>
  /\ position = 2

(***************************************************************************)
(* Properties of readKey, readLn and readSecret.                           *)
(***************************************************************************)
\* key matches one of the accepted keys, case being ignored.
IsAccepted(key) ==
  \E i \in DOMAIN ACCEPTED_KEYS : ToLowerCase(ACCEPTED_KEYS[i]) = ToLowerCase(key)

\* The statements started so far whose command opens a request.
Requests ==
  {i \in DOMAIN started :
     FirstToken(started[i]) \in DOMAIN commands
       /\ commands[FirstToken(started[i])] \in {"reads key", "reads line", "reads secret"}}

\* C23 (as claimed): while the input element of readKey is in the body, a key
\* that leaves the request open is none of the accepted keys; the request
\* resolves with the upper-cased key that went down, which is an accepted one,
\* and is over then; every request resolves at most once.
C23_ReadKey ==
  /\ [](Len(answers) + (IF reading.kind = "none" THEN 0 ELSE 1) = Cardinality(Requests))
  /\ [][(reading.kind = "readKey" /\ reading.phase = "input")
          => /\ (reading'.kind = "readKey" /\ reading'.key # reading.key)
                  => ~IsAccepted(reading'.key)
             /\ reading'.kind = "readKey" => (answers' = answers /\ pending' = pending)
             /\ answers' # answers
                  => \E key \in ReadKeys :
                       /\ IsAccepted(key)
                       /\ answers' = Append(answers, ToUpperCase(key))
                       /\ body' = Append(body, Line("span", key))
                       /\ reading'.kind = "none"
                       /\ pending' = pending \ {reading.stmt}
                       /\ outcomes'[reading.stmt] = "resolved"]_vars

(***************************************************************************)
(* Properties of the built-in commands.                                    *)
(***************************************************************************)
\* The statement calls a built-in command with --? as its first argument.
IsUsage(stmt) ==
  /\ Len(Words(stmt)) >= 2
  /\ Words(stmt)[1] \in {CLEAR, HELP, HISTORY}
  /\ Words(stmt)[2] = OPT_USAGE

\* C24: a statement that calls a built-in command with --? keeps every line of
\* the body and adds usage text, the first line of which is the usage line of
\* that command; the entries, the cursor, the limit, the stored blob and the
\* registry stay as they are.
C24_UsageConvention ==
  [][(pc = "loop" /\ chunks # << >> /\ IsUsage(Head(chunks)))
      => /\ IsPrefixOf(body, body') /\ Len(body') > Len(body)
         /\ body'[Len(body) + 1].kind =
              (CASE Words(Head(chunks))[1] = CLEAR -> "Usage: clear"
                 [] Words(Head(chunks))[1] = HELP -> "Usage: help"
                 [] OTHER -> "Usage: history [option]")
         /\ \A k \in (Len(body) + 1)..Len(body') : body'[k].text = << >>
         /\ UNCHANGED << history, position, limit, storage, commands >>
         /\ pc' = "loop"]_vars

\* The committed line ls; clear --?; help --?; history --? has run: the body
\* holds the line, the output of ls and the usage text of the three built-in
\* commands, and the line is the one entry of the history.
C24_Witness ==
  /\ started = Chunks(EXPR_USAGE)
  /\ history = << EXPR_USAGE >>
  /\ Len(body) = 10
  /\ body[1] = Line("input", EXPR_USAGE)
  /\ body[3].kind = "Usage: clear"
  /\ body[5].kind = "Usage: help"
  /\ body[7].kind = "Usage: history [option]"

(***************************************************************************)
(* Properties of the order of the output.                                  *)
(***************************************************************************)
\* The line is written by a statement: it is not the committed line, the motd
\* or a prompt.
IsStatementLine(l) == l.kind \notin {"input", "motd", "prompt"}

\* The lines statement i has written so far when it calls a command of the
\* demo page or an unknown command: the output of the command, then its error
\* line if it has failed.
LinesOf(i) ==
  LET cmd == FirstToken(started[i])
  IN  IF cmd \notin DOMAIN commands THEN << UnknownLine(cmd) >>
      ELSE << Line("output", cmd) >>
             \o (IF Failed(outcomes[i]) THEN << ErrorLine(cmd) >> ELSE << >>)

RECURSIVE LinesUpTo(_)
LinesUpTo(n) == IF n = 0 THEN << >> ELSE LinesUpTo(n - 1) \o LinesOf(n)

\* C25: when no statement of the expression calls a built-in command, the
\* lines the statements have written are, statement by statement in the order
\* they were started, the output of the statement followed by its error line if
\* it threw or its Promise was rejected: the error line comes after the output
\* of its statement and before every line of a later statement.
C25_ErrorOrdering ==
  (\A i \in DOMAIN started : FirstToken(started[i]) \notin {CLEAR, HELP, HISTORY})
    => SelectSeq(body, IsStatementLine) = LinesUpTo(Len(started))

\* The Promise of the third statement was rejected after the second statement
\* threw: each error line stands between the output of its statement and the
\* output of the next one.
C25_Witness ==
  /\ outcomes = << "returned", "threw", "rejected", "returned" >>
  /\ \E k \in DOMAIN body :
       /\ k + 5 \in DOMAIN body
       /\ SubSeq(body, k, k + 5) =
            << Line("output", LS), Line("output", BAD), ErrorLine(BAD),
               Line("output", SLOW), ErrorLine(SLOW), Line("output", PWD) >>

(***************************************************************************)
(* Properties of the splitting of an expression.                           *)
(***************************************************************************)
IsSeparator(c) == c \in {";", "\n"}

\* The pieces of s between its separator characters, from index i on, the
\* piece in progress starting at p.
RECURSIVE PiecesFrom(_, _, _)
PiecesFrom(s, p, i) ==
  IF i > Len(s) THEN << Sub(s, p, Len(s)) >>
  ELSE IF IsSeparator(s[i]) THEN << Sub(s, p, i - 1) >> \o PiecesFrom(s, i + 1, i + 1)
  ELSE PiecesFrom(s, p, i + 1)

\* t without its leading white space, and without its trailing white space.
RECURSIVE StripLeft(_)
StripLeft(t) == IF t # << >> /\ IsSpace(Head(t)) THEN StripLeft(Tail(t)) ELSE t
RECURSIVE StripRight(_)
StripRight(t) ==
  IF t # << >> /\ IsSpace(t[Len(t)]) THEN StripRight(SubSeq(t, 1, Len(t) - 1)) ELSE t

\* The statements of s as claimed: the pieces between the separator
\* characters, without the white space next to a separator, those left out that
\* are empty or white space only.
Statements(s) ==
  LET ps == PiecesFrom(s, 1, 1)
      clean == [k \in DOMAIN ps |->
                  LET l == IF k > 1 THEN StripLeft(ps[k]) ELSE ps[k]
                  IN  IF k < Len(ps) THEN StripRight(l) ELSE l]
      IsStatement(t) == \E j \in DOMAIN t : ~IsSpace(t[j])
  IN  SelectSeq(clean, IsStatement)

C27_Clear ==
  [][/\ (IsCommit /\ Trim(input) = LINE_HISTORY_CLEAR)
          => (history' = << >> /\ storage'.history = [present |-> TRUE, value |-> << >>])
     /\ (pc = "input" /\ pc' = "input" /\ history = << >>)
          => /\ history' = << >>
             /\ position' >= position
             /\ position' # position => input' = << >>
     /\ (history = << >> /\ history' # << >>) => IsCommit]_vars

\* After history --clear, recall-next has moved the cursor from -1 to 0 and
\* the input is the empty line.
C27_Witness ==
  /\ pc = "input"
  /\ body # << >> /\ body[1] = Line("input", LINE_HISTORY_CLEAR)
  /\ history = << >> /\ storage.history = [present |-> TRUE, value |-> << >>]
  /\ position = 0
  /\ input = << >>

\* s is a decimal numeral.
IsNumeral(s) == s # << >> /\ \A i \in 1..Len(s) : IsDigit(s[i])

IsSuffixOf(p, q) == Len(p) <= Len(q) /\ p = Sub(q, Len(q) - Len(p) + 1, Len(q))

\* The entries a commit of the line in the input element may leave when the
\* command of the line does not touch them: the line is recorded or not, and
\* the oldest entry is dropped for the limit or not.
AfterCommit ==
  {history, Append(history, Trim(input)), Tail(Append(history, Trim(input)))}

LimitedLine(n) == Line("The history is limited to <limit> itmes.", NumberToString(n))

\* C28 (as claimed): a commit of history --limit <v> with a numeral v makes the
\* limit that number and drops the oldest entries until at most that many are
\* left; with a v that is no numeral it writes history: Not a number: <v> and
\* leaves limit and entries as they are; without a value it writes the current
\* limit and leaves limit and entries as they are.
C28_Limit ==
  [][(IsCommit /\ Len(Words(input)) >= 2
        /\ SubSeq(Words(input), 1, 2) = << HISTORY, OPT_LIMIT >>)
      => LET w == Words(input)
         IN  IF Len(w) = 2
             THEN /\ limit' = limit
                  /\ history' \in AfterCommit
                  /\ LimitedLine(limit) \in Lines(body')
             ELSE IF IsNumeral(w[3])
             THEN /\ limit' = Num(Decimal(w[3], 0))
                  /\ Len(history') <= Decimal(w[3], 0)
                  /\ IsSuffixOf(history', Append(history, Trim(input)))
                  /\ Len(history') = Decimal(w[3], 0) \/ history' \in AfterCommit
             ELSE /\ limit' = limit
                  /\ history' \in AfterCommit
                  /\ Line("history: Not a number: ", w[3]) \in Lines(body')]_vars

\* C29 (as claimed): the cursor never exceeds the number of entries, and a step
\* at the prompt that lowers the cursor (recall-previous) lands on the index of
\* an entry.
C29_CursorInRange ==
  /\ [](position <= Len(history))
  /\ [][(pc = "input" /\ pc' = "input" /\ position' < position)
          => position' + 1 \in DOMAIN history]_vars

(***************************************************************************)
(* Properties of what is recorded.                                         *)
(***************************************************************************)
\* C30: the history gets a new entry only in a commit at the shell prompt, and
\* the entry is the committed line. A step taken while a request of readKey,
\* readLn or readSecret is open, or while the statements of an expression run,
\* leaves entries, cursor and stored blob as they are (no statement of the
\* session calls the history command). The expression the constructor
\* evaluates leaves the history empty and the cursor at 0.
C30_Recorded ==
  /\ [][/\ (history' # history)
              => (/\ IsCommit /\ reading.kind = "none"
                  /\ history' = Append(history, Trim(input)))
        /\ (reading.kind # "none" \/ pc # "input")
              => (/\ history' = history
                  /\ position' = position
                  /\ storage' = storage)]_vars
  /\ [](InStartup => (history = << >> /\ position = 0 /\ ~storage.history.present))

\* readKey and readLn were called by the startup expression and by committed
\* lines: readLn was answered with ls, and the history holds the committed
\* lines only.
C30_Witness ==
  /\ history = << KEY, LINE >>
  /\ position = 2
  /\ answers = << LS >>
  /\ reading.kind = "none"
  /\ pc = "input"

(***************************************************************************)
(* Properties of the input element.                                        *)
(***************************************************************************)
\* The requests for input that are open: that of the shell prompt, from
\* receiveInput to the commit, and that of a command, from receiveInput to the
\* key that resolves it.
OpenRequests ==
  (IF pc \in {"timer", "input"} THEN 1 ELSE 0)
    + (IF reading.kind # "none" THEN 1 ELSE 0)

\* The input elements in the body that take keys.
ActiveInputs ==
  (IF pc = "input" THEN 1 ELSE 0) + (IF reading.phase = "input" THEN 1 ELSE 0)

\* C31: when every command that requests input returns the Promise of its
\* request, at most one request for input is open at any time. A step at the
\* shell prompt that starts an evaluation leaves no input element that takes
\* keys and puts the span with the committed text first in the body; a step
\* that delivers an answer to a command closes the request, appends its span
\* and starts no statement.
C31_SingleInput ==
  /\ [](OpenRequests <= 1 /\ ActiveInputs <= OpenRequests)
  /\ [][/\ (pc = "input" /\ (stmts' # stmts \/ body' # body \/ pc' # pc))
             => (/\ ActiveInputs' = 0
                 /\ body' # << >> /\ body'[1] = Line("input", input))
        /\ (answers' # answers /\ reading.kind # "none")
             => (/\ reading.phase = "input"
                 /\ reading'.kind = "none"
                 /\ ActiveInputs' = 0
                 /\ Len(body') = Len(body) + 1 /\ SubSeq(body', 1, Len(body)) = body
                 /\ started' = started)]_vars

\* The line "line" was committed at the shell prompt; the input element of its
\* readLn is the only one that takes keys, and ls was typed into it.
C31_Witness ==
  /\ pc = "wait"
  /\ body # << >> /\ body[1] = Line("input", LINE)
  /\ reading.kind = "readLn" /\ reading.phase = "input"
  /\ input = LS
  /\ OpenRequests = 1

====
